---- MODULE Spec2Model ----
(***************************************************************************)
(* A model of the MCP session protocol and streaming pipeline of the       *)
(* ElevenLabs Scribe MCP server:                                           *)
(*   mcp/protocol.py   MCPSession, MCPProtocolHandler                      *)
(*   mcp/elevenlabs.py ElevenLabsProvider, ElevenLabsTranscriptionService  *)
(*   mcp/types.py      the message, config and result shapes               *)
(*                                                                         *)
(* The program runs on one asyncio event loop: code between two points     *)
(* where a coroutine really suspends runs atomically.  Every action below  *)
(* is one such run: a whole handle_message call (none of its awaits        *)
(* suspends: Queue.put on an unbounded queue and close() return at once),  *)
(* a whole start_session call, or a task's run from one suspension to the  *)
(* next (the wait in Queue.get, the HTTP call of _transcribe).             *)
(***************************************************************************)
EXTENDS Integers, Sequences, FiniteSets, TLC

(***************************************************************************)
(* Bounds of the model.                                                    *)
(***************************************************************************)
MaxObjs == 2       \* MCPSession objects ever constructed
MaxStreams == 1    \* of them, when pipeline tasks and consumers run
MaxTasks == 1      \* pipeline tasks ever created
MaxQueue == 2      \* chunks held by one inbound queue
MaxSequence == 4   \* highest value a session's sequence counter reaches
MaxResults == 2    \* provider results returned for one session
MaxBuffer == 3     \* entries of a context buffer (SpecContext)
MaxText == 3       \* characters of a text given to update_context (SpecContext)
MaxRequests == 2   \* POST /transcribe requests ever made (SpecTransport)
MaxSpawned == 2    \* pipeline tasks ever created (SpecLifecycle)

(***************************************************************************)
(* Values.                                                                 *)
(***************************************************************************)
\* Session ids a client may name of its own accord: the empty string and a
\* non-empty one.  Uuids are the values uuid.uuid4() can produce.
EmptyId == ""
NamedIds == {"s"}
Uuids == {"u1"}
Keys == NamedIds \cup Uuids

\* MessageType (types.py 9-17).
HandledTypes == {"init", "start", "audio", "stop"}
MessageTypes == HandledTypes \cup {"transcription", "error", "done"}

\* The sequence numbers carried by incoming messages.
MsgSequences == {0, 7}

\* Audio payloads: empty bytes, a value that is not bytes-like (wave's
\* writeframes raises on it), and well-formed PCM.
Chunks == {"", "x", "a"}

\* Optional[int]: None, or an integer.
None == [none |-> TRUE, n |-> 0]
Some(n) == [none |-> FALSE, n |-> n]
\* The max_context_length values of Init payloads: the default of
\* TranscriptionConfig (types.py 32) and a negative one.
DefaultMaxContextLength == 1000
MaxContextLengths == {Some(DefaultMaxContextLength), Some(-1)}

\* Texts are character sequences, so that str.split() is computed.
Chars == {"w", " "}
EmptyText == << >>
HelloWorld == <<"w", " ", "w">>

\* str.split() without arguments: the number of maximal runs of
\* non-whitespace characters (protocol.py 85, 88: len(t.split())).
TokenCount(text) ==
    Cardinality({i \in 1..Len(text) :
                    /\ text[i] # " "
                    /\ (i = 1 \/ text[i-1] = " ")})

RECURSIVE SumTokens(_)
\* sum(len(t.split()) for t in self.context_buffer) (protocol.py 85).
SumTokens(buf) ==
    IF buf = << >> THEN 0 ELSE TokenCount(Head(buf)) + SumTokens(Tail(buf))

(***************************************************************************)
(* State.                                                                  *)
(***************************************************************************)
VARIABLES
    sessions,   \* MCPProtocolHandler.sessions: key -> object (0: no entry)
    heap,       \* the MCPSession objects constructed so far
    uuids,      \* the values uuid.uuid4() has returned
    tasks,      \* the asyncio tasks created by start_session
    taskReg,    \* ElevenLabsTranscriptionService._tasks: key -> task (0: none)
    joins,      \* tasks a suspended stop_session call is awaiting
    consumer,   \* the transport's iteration over get_result()
    hist,       \* what the pipeline has done so far, for stating properties
    runs,       \* what the handler has replied so far, for stating properties
    rest,       \* the POST /transcribe requests: where each handler call is
    ws          \* the /ws/transcribe connection: its handler and its client

vars == <<sessions, heap, uuids, tasks, taskReg, joins, consumer, hist, runs,
          rest, ws>>

(***************************************************************************)
(* MCPSession (protocol.py 19-99).  A queue attribute is the list of the   *)
(* asyncio.Queue objects it has been bound to, the last one being the      *)
(* current value of the attribute: a coroutine suspended inside            *)
(* Queue.get() keeps waiting on the object it was called on.               *)
(***************************************************************************)
\* MCPSession.__init__: session_id or str(uuid.uuid4()), the rest fresh.
NewSession(session_id, config) ==
    [session_id |-> session_id,
     max_context_length |-> config.max_context_length,
     sequence |-> 0,
     context_buffer |-> << >>,
     is_active |-> TRUE,
     audio_queue |-> << << >> >>,
     result_queue |-> << << >> >>]

\* The message create_message builds: stamped with the session's id and its
\* current sequence number.
CreatedMessage(s, type, status) ==
    [type |-> type, session_id |-> s.session_id, sequence |-> s.sequence,
     status |-> status, code |-> "", message |-> "", raised |-> FALSE]

\* A create_message that forgets to count (C1 must reject it).
AfterCreateMessage_Unstamped(s) == s

\* The session after create_message: self.sequence += 1.
AfterCreateMessage(s) == [s EXCEPT !.sequence = @ + 1]

\* push_audio: put on the current inbound queue.
PushAudio(s, data) ==
    [s EXCEPT !.audio_queue[Len(s.audio_queue)] = Append(@, data)]

\* push_result: put on the current outbound queue.
PushResult(s, result) ==
    [s EXCEPT !.result_queue[Len(s.result_queue)] = Append(@, result)]

\* if self.config.max_context_length: None and 0 are both falsy.
Truthy(opt) == ~opt.none /\ opt.n # 0

RECURSIVE TrimContext(_, _, _)
\* The while loop of update_context: pop(0) until the total is within the
\* limit; list.pop on an empty list raises IndexError.
TrimContext(buf, total, limit) ==
    IF total > limit
    THEN IF buf = << >>
         THEN [buf |-> buf, raised |-> TRUE]
         ELSE TrimContext(Tail(buf), total - TokenCount(Head(buf)), limit)
    ELSE [buf |-> buf, raised |-> FALSE]

\* An update_context that totals the buffer before it appends (C21 must
\* reject it).
UpdateContext_StaleTotal(buf, max_context_length, text) ==
    LET appended == Append(buf, text)
    IN  IF Truthy(max_context_length)
        THEN TrimContext(appended, SumTokens(buf), max_context_length.n)
        ELSE [buf |-> appended, raised |-> FALSE]

\* update_context: the buffer it leaves and whether it raised.
UpdateContext(buf, max_context_length, text) ==
    LET appended == Append(buf, text)
    IN  IF Truthy(max_context_length)
        THEN TrimContext(appended, SumTokens(appended), max_context_length.n)
        ELSE [buf |-> appended, raised |-> FALSE]

RECURSIVE GetContext(_)
\* get_context: " ".join(self.context_buffer).
GetContext(buf) ==
    IF buf = << >> THEN << >>
    ELSE IF Len(buf) = 1 THEN buf[1]
    ELSE buf[1] \o << " " >> \o GetContext(Tail(buf))

\* close: is_active = False and both queue attributes rebound to new, empty
\* queues.  The old queue objects keep their items.
CloseSession(s) ==
    [s EXCEPT !.is_active = FALSE,
              !.audio_queue = Append(@, << >>),
              !.result_queue = Append(@, << >>)]

(***************************************************************************)
(* Messages (types.py 60-66).  The payload of an Init message is its       *)
(* config (whether pydantic accepts it, and its max_context_length); the   *)
(* payload of an Audio message may hold a data field.                      *)
(***************************************************************************)
NoPayload ==
    [valid |-> TRUE, max_context_length |-> Some(DefaultMaxContextLength),
     has_data |-> FALSE, data |-> ""]

InitPayloads ==
    {[NoPayload EXCEPT !.valid = v, !.max_context_length = n] :
        v \in BOOLEAN, n \in MaxContextLengths}

AudioPayloads ==
    {NoPayload} \cup {[NoPayload EXCEPT !.has_data = TRUE, !.data = c] : c \in Chunks}

PayloadsOf(type) ==
    CASE type = "init" -> InitPayloads
      [] type = "audio" -> AudioPayloads
      [] OTHER -> {NoPayload}

\* The session ids a caller can put in a message: its own, and the ids
\* replies have carried.
ClientIds == {EmptyId} \cup NamedIds \cup uuids

Message(type, session_id, sequence, payload) ==
    [type |-> type, session_id |-> session_id, sequence |-> sequence,
     payload |-> payload]

(***************************************************************************)
(* MCPProtocolHandler (protocol.py 102-189).  A handler is an operator     *)
(* from the message and the state to what it returns or raises and the     *)
(* state it leaves: [raised, exc, text, reply, sessions, heap].            *)
(***************************************************************************)
\* self.sessions.get(session_id): 0 stands for None.
GetSession(reg, session_id) ==
    IF session_id \in Keys THEN reg[session_id] ELSE 0

Returns(reply, reg, h) ==
    [raised |-> FALSE, exc |-> "", text |-> "", reply |-> reply,
     sessions |-> reg, heap |-> h]

Raises(exc, text, reg, h) ==
    [raised |-> TRUE, exc |-> exc, text |-> text, reply |-> << >>,
     sessions |-> reg, heap |-> h]

\* The id MCPSession.__init__ keeps: session_id or str(uuid.uuid4()).
SessionIdOrUuid(session_id, uuid) ==
    IF session_id = EmptyId THEN uuid ELSE session_id

\* An _handle_init that keeps the session already registered for the id
\* (C13 must reject it).
HandleInit_KeepsExisting(m, uuid) ==
    IF ~m.payload.valid
    THEN Raises("ValidationError", "validation error", sessions, heap)
    ELSE IF GetSession(sessions, m.session_id) # 0
    THEN LET obj == GetSession(sessions, m.session_id)
         IN  Returns(CreatedMessage(heap[obj], "init", "ready"),
                     sessions,
                     [heap EXCEPT ![obj] = AfterCreateMessage(@)])
    ELSE LET session == NewSession(SessionIdOrUuid(m.session_id, uuid), m.payload)
             obj == Len(heap) + 1
         IN  Returns(CreatedMessage(session, "init", "ready"),
                     [sessions EXCEPT ![session.session_id] = obj],
                     Append(heap, AfterCreateMessage(session)))

\* _handle_init; uuid is the value uuid.uuid4() would return.
HandleInit(m, uuid) ==
    IF ~m.payload.valid
    THEN Raises("ValidationError", "validation error", sessions, heap)
    ELSE LET session == NewSession(SessionIdOrUuid(m.session_id, uuid), m.payload)
             obj == Len(heap) + 1
         IN  Returns(CreatedMessage(session, "init", "ready"),
                     [sessions EXCEPT ![session.session_id] = obj],
                     Append(heap, AfterCreateMessage(session)))

\* _handle_start, given the registry and the session objects it finds.
HandleStartIn(reg, h, m) ==
    LET obj == GetSession(reg, m.session_id)
    IN  IF obj = 0
        THEN Raises("ValueError", "Session not found", reg, h)
        ELSE Returns(CreatedMessage(h[obj], "start", "started"),
                     reg,
                     [h EXCEPT ![obj] = AfterCreateMessage(@)])

\* An _handle_start that starts the numbering over (C17 must reject it).
HandleStart_Restarts(m) ==
    LET obj == GetSession(sessions, m.session_id)
    IN  IF obj = 0
        THEN Raises("ValueError", "Session not found", sessions, heap)
        ELSE Returns(CreatedMessage([heap[obj] EXCEPT !.sequence = 0],
                                    "start", "started"),
                     sessions,
                     [heap EXCEPT ![obj].sequence = 1])

\* _handle_start.
HandleStart(m) == HandleStartIn(sessions, heap, m)

\* An _handle_audio that enqueues before it looks for the data field (C8
\* must reject it).
HandleAudio_PushFirst(m) ==
    LET obj == GetSession(sessions, m.session_id)
    IN  IF obj = 0
        THEN Raises("ValueError", "Session not found", sessions, heap)
        ELSE LET pushed == PushAudio(heap[obj], m.payload.data)
             IN  IF ~m.payload.has_data
                 THEN Raises("ValueError", "Audio data missing in payload",
                             sessions, [heap EXCEPT ![obj] = pushed])
                 ELSE Returns(CreatedMessage(pushed, "audio", "received"),
                              sessions,
                              [heap EXCEPT ![obj] = AfterCreateMessage(pushed)])

\* An _handle_audio that builds its reply without create_message: the
\* counter stays (C18 must reject it).
HandleAudio_Unnumbered(m) ==
    LET obj == GetSession(sessions, m.session_id)
    IN  IF obj = 0
        THEN Raises("ValueError", "Session not found", sessions, heap)
        ELSE IF ~m.payload.has_data
        THEN Raises("ValueError", "Audio data missing in payload", sessions, heap)
        ELSE LET pushed == PushAudio(heap[obj], m.payload.data)
             IN  Returns(CreatedMessage(pushed, "audio", "received"),
                         sessions,
                         [heap EXCEPT ![obj] = pushed])

\* _handle_audio.
HandleAudio(m) ==
    LET obj == GetSession(sessions, m.session_id)
    IN  IF obj = 0
        THEN Raises("ValueError", "Session not found", sessions, heap)
        ELSE IF ~m.payload.has_data
        THEN Raises("ValueError", "Audio data missing in payload", sessions, heap)
        ELSE LET pushed == PushAudio(heap[obj], m.payload.data)
             IN  Returns(CreatedMessage(pushed, "audio", "received"),
                         sessions,
                         [heap EXCEPT ![obj] = AfterCreateMessage(pushed)])

\* _handle_stop, given the registry and the session objects it finds:
\* close, del self.sessions[id], then create_message on the closed session.
HandleStopIn(reg, h, m) ==
    LET obj == GetSession(reg, m.session_id)
    IN  IF obj = 0
        THEN Raises("ValueError", "Session not found", reg, h)
        ELSE LET closed == CloseSession(h[obj])
             IN  Returns(CreatedMessage(closed, "stop", "stopped"),
                         [reg EXCEPT ![m.session_id] = 0],
                         [h EXCEPT ![obj] = AfterCreateMessage(closed)])

\* An _handle_stop that leaves the registry entry (C3 must reject it).
HandleStop_KeepsEntry(m) ==
    LET obj == GetSession(sessions, m.session_id)
    IN  IF obj = 0
        THEN Raises("ValueError", "Session not found", sessions, heap)
        ELSE LET closed == CloseSession(heap[obj])
             IN  Returns(CreatedMessage(closed, "stop", "stopped"),
                         sessions,
                         [heap EXCEPT ![obj] = AfterCreateMessage(closed)])

\* _handle_stop.
HandleStop(m) == HandleStopIn(sessions, heap, m)

\* The dispatch switch of handle_message.
Dispatch(m, uuid) ==
    CASE m.type = "init" -> HandleInit(m, uuid)
      [] m.type = "start" -> HandleStart(m)
      [] m.type = "audio" -> HandleAudio(m)
      [] m.type = "stop" -> HandleStop(m)
      [] OTHER -> Raises("ValueError", "Unsupported message type", sessions, heap)

\* An except clause for ValueError raised by the handlers themselves only
\* (C9 must reject it).
CaughtByExcept_OwnErrors(exc) == exc = "ValueError"

\* except Exception: the classes the handlers raise are all subclasses of it
\* (pydantic's ValidationError is a ValueError).
CaughtByExcept(exc) == exc \in {"ValueError", "ValidationError"}

\* An Error message with a code per failure class (C2 must reject it).
ErrorReply_ByClass(m, text) ==
    [type |-> "error", session_id |-> m.session_id, sequence |-> m.sequence,
     status |-> "",
     code |-> IF text = "Session not found" THEN "not_found" ELSE "protocol_error",
     message |-> text, raised |-> FALSE]

\* The Error message handle_message builds in its except clause.
ErrorReply(m, text) ==
    [type |-> "error", session_id |-> m.session_id, sequence |-> m.sequence,
     status |-> "", code |-> "protocol_error", message |-> text,
     raised |-> FALSE]

\* What handle_message gives its caller: the handler's reply, the Error
\* message, or the exception it lets through.
ReplyOf(m, out) ==
    IF ~out.raised THEN out.reply
    ELSE IF CaughtByExcept(out.exc) THEN ErrorReply(m, out.text)
    ELSE [ErrorReply(m, out.text) EXCEPT !.type = "raised", !.raised = TRUE]

(***************************************************************************)
(* ElevenLabsProvider (elevenlabs.py 29-145).                              *)
(***************************************************************************)
\* The JSON bodies of the provider's 200 responses: a word may lack "type".
Hello ==
    [text |-> HelloWorld, language_code |-> "en",
     words |-> << [text |-> "hello", has_type |-> FALSE, type |-> ""],
                  [text |-> "world", has_type |-> TRUE, type |-> "audio_event"] >>]
Silence == [text |-> EmptyText, language_code |-> "en", words |-> << >>]
Responses == {Hello, Silence}

\* What the await of _transcribe ends with: an exception (a non-200 status,
\* a network error, a body without the expected keys) or a 200 response.
Failure == [ok |-> FALSE, body |-> Silence]
Outcomes == {Failure} \cup {[ok |-> TRUE, body |-> r] : r \in Responses}

\* _convert_to_wav raises on a value that is not bytes-like.
Convertible(chunk) == chunk # "x"

\* The TranscriptionResult _transcribe builds from a 200 response
\* (elevenlabs.py 132-145): type=w.get("type", "speech").
Transcribe(r) ==
    [text |-> r.text, language_code |-> r.language_code,
     words |-> [i \in DOMAIN r.words |->
                   [text |-> r.words[i].text,
                    type |-> IF r.words[i].has_type THEN r.words[i].type
                             ELSE "speech"]]]

\* A task as asyncio.create_task leaves it: not yet run.
NewTask(obj) ==
    [obj |-> obj, pc |-> "created", gen |-> 0, chunk |-> "", cancel |-> FALSE,
     taken |-> 0, submitted |-> {}, failed |-> {}]

\* A finished task: only that it is done, what it served and whether it was
\* cancelled are kept.
Finished(t) == [NewTask(t.obj) EXCEPT !.pc = "done", !.cancel = t.cancel]

RECURSIVE RunLoop(_, _), ProcessChunk(_, _, _)
\* The task from the head of get_audio's `while self.is_active` to its next
\* suspension: the loop ends on an inactive session, and _process_session's
\* finally clause closes the session; Queue.get() suspends on an empty queue
\* and otherwise returns its first item at once.
RunLoop(s, t) ==
    IF ~s.is_active
    THEN [s |-> CloseSession(s), t |-> Finished(t)]
    ELSE LET g == Len(s.audio_queue)
             q == s.audio_queue[g]
         IN  IF q = << >>
             THEN [s |-> s, t |-> [t EXCEPT !.pc = "wait", !.gen = g]]
             ELSE ProcessChunk([s EXCEPT !.audio_queue[g] = Tail(q)], t, Head(q))

\* The body of process_stream's loop for one chunk, up to the await of
\* _transcribe: an empty chunk is skipped, a conversion error is logged and
\* the loop continues.
ProcessChunk(s, t, chunk) ==
    LET n == t.taken + 1
    IN  IF chunk = ""
        THEN RunLoop(s, [t EXCEPT !.taken = n])
        ELSE IF ~Convertible(chunk)
        THEN RunLoop(s, [t EXCEPT !.taken = n, !.failed = @ \cup {n}])
        ELSE [s |-> s,
              t |-> [t EXCEPT !.taken = n, !.submitted = @ \cup {n},
                              !.pc = "call", !.gen = 0, !.chunk = chunk]]

\* A loop without the except clause: the exception of _transcribe ends the
\* task, and the finally clause closes the session (C6 must reject it).
AfterError_Propagates(s, t) == [s |-> CloseSession(s), t |-> Finished(t)]

\* The task when _transcribe raises: except Exception logs it, continue.
AfterError(s, t) ==
    RunLoop(s, [t EXCEPT !.failed = @ \cup {t.taken}, !.chunk = ""])

\* The task when _transcribe returns: update_context on a non-empty text
\* (an exception it raises is caught like any other), yield, push_result in
\* _process_session, and on with the loop.
AfterResult(s, t, result) ==
    LET uc == IF result.text # EmptyText
              THEN UpdateContext(s.context_buffer, s.max_context_length, result.text)
              ELSE [buf |-> s.context_buffer, raised |-> FALSE]
        s1 == [s EXCEPT !.context_buffer = uc.buf]
    IN  IF uc.raised
        THEN RunLoop(s1, [t EXCEPT !.failed = @ \cup {t.taken}, !.chunk = ""])
        ELSE RunLoop(PushResult(s1, result), [t EXCEPT !.chunk = ""])

\* A cancelled task at its next step.  A task that never ran does not enter
\* _process_session: its try/finally is not reached.  Otherwise
\* CancelledError ends the wait in get_audio (caught there, the loop breaks)
\* or passes through except Exception in process_stream; either way the
\* finally clause closes the session.
AfterCancel(s, t) ==
    IF t.pc = "created"
    THEN [s |-> s, t |-> Finished(t)]
    ELSE [s |-> CloseSession(s), t |-> Finished(t)]

(***************************************************************************)
(* Garbage.  A queue object that no session is bound to and no coroutine   *)
(* waits on is unreachable, and so is a session object that is not in the  *)
(* registry and that no unfinished task and no consumer holds: callers get *)
(* their session objects from the registry.  What only an unreachable      *)
(* object holds is dropped from the state (is_active is kept).             *)
(***************************************************************************)
AudioWaiter(ts, o, g) ==
    \E i \in DOMAIN ts :
        /\ ts[i].obj = o /\ ts[i].pc = "wait" /\ ts[i].gen = g
        /\ ~ts[i].cancel

ResultWaiter(c, o, g) == c.obj = o /\ c.pc = "wait" /\ c.gen = g

Reachable(reg, ts, c, o) ==
    \/ \E k \in DOMAIN reg : reg[k] = o
    \/ \E i \in DOMAIN ts : ts[i].obj = o /\ ts[i].pc # "done"
    \/ c.obj = o /\ c.pc \in {"wait", "body"}

Unreachable(s) ==
    [s EXCEPT !.max_context_length = Some(DefaultMaxContextLength),
              !.sequence = 0,
              !.context_buffer = << >>,
              !.audio_queue = << << >> >>, !.result_queue = << << >> >>]

Collected(reg, h, ts, c) ==
    [o \in DOMAIN h |->
        LET aq == h[o].audio_queue
            rq == h[o].result_queue
        IN  IF ~Reachable(reg, ts, c, o) THEN Unreachable(h[o])
            ELSE [h[o] EXCEPT
               !.audio_queue =
                   [g \in DOMAIN aq |->
                       IF g = Len(aq) \/ AudioWaiter(ts, o, g) THEN aq[g] ELSE << >>],
               !.result_queue =
                   [g \in DOMAIN rq |->
                       IF g = Len(rq) \/ ResultWaiter(c, o, g) THEN rq[g] ELSE << >>]]]

(***************************************************************************)
(* The transport's consumer of results: async for r in session.get_result()*)
(* with a loop body that suspends (it sends the result to the client).     *)
(***************************************************************************)
NoConsumer == [obj |-> 0, pc |-> "idle", gen |-> 0]

\* get_result from the head of its `while self.is_active` to the consumer's
\* next suspension: the iteration ends on an inactive session, Queue.get()
\* suspends on an empty queue, and otherwise the first item is yielded.
ConsumeLoop(s, c) ==
    IF ~s.is_active
    THEN [s |-> s, c |-> [c EXCEPT !.pc = "done"], yielded |-> << >>]
    ELSE LET g == Len(s.result_queue)
             q == s.result_queue[g]
         IN  IF q = << >>
             THEN [s |-> s, c |-> [c EXCEPT !.pc = "wait", !.gen = g],
                   yielded |-> << >>]
             ELSE [s |-> [s EXCEPT !.result_queue[g] = Tail(q)],
                   c |-> [c EXCEPT !.pc = "body"],
                   yielded |-> << Head(q) >>]

(***************************************************************************)
(* History, kept for stating the properties.                               *)
(*   runs.run[id]      how far a run Init, Start, Audio*, Stop on an id    *)
(*                     that was never registered has got, with the type    *)
(*                     and sequence number of each reply ("off": no such   *)
(*                     run is under way; "failed": the run got an Error    *)
(*                     reply, its last, and is followed no further)        *)
(*   runs.stopped      the ids whose last successful Init or Stop was a    *)
(*                     Stop                                                *)
(*   runs.created[o]   the sequence numbers of the replies session object  *)
(*                     o has created, in order                             *)
(*   runs.acked[o]     the chunks of the Audio messages acknowledged by    *)
(*                     session object o, in order                          *)
(*   hist.provided[o]  the 200 responses the provider has returned for     *)
(*                     chunks of session object o, in order                *)
(*   hist.consumed[o]  the results get_result has yielded for o, in order  *)
(***************************************************************************)
AllIds == {EmptyId} \cup Keys

NoRun == [st |-> "off", replies |-> << >>]

RunAfter(r, m, reply) ==
    LET brief == [type |-> reply.type, sequence |-> reply.sequence]
        on(st) == [st |-> IF reply.type = "error" THEN "failed" ELSE st,
                   replies |-> Append(r.replies, brief)]
    IN  CASE r.st = "fresh" ->
                IF m.type = "init" /\ m.payload.valid THEN on("init") ELSE r
          [] r.st = "init" ->
                IF m.type = "start" THEN on("start") ELSE NoRun
          [] r.st \in {"start", "audio"} ->
                IF m.type = "audio" /\ m.payload.has_data THEN on("audio")
                ELSE IF m.type = "stop" THEN on("stop")
                ELSE NoRun
          [] OTHER -> NoRun

RunsAfterMessage(m, reply, newIds) ==
    [run |-> [i \in AllIds |->
                 IF i = m.session_id THEN RunAfter(runs.run[i], m, reply)
                 ELSE IF i \in newIds THEN NoRun
                 ELSE runs.run[i]],
     stopped |->
         IF reply.type = "stop" THEN runs.stopped \cup {m.session_id}
         ELSE IF reply.type = "init" THEN runs.stopped \ {m.session_id}
         ELSE runs.stopped,
     created |->
         IF reply.type = "init" THEN Append(runs.created, << reply.sequence >>)
         ELSE IF reply.type \in {"start", "audio", "stop"}
         THEN [runs.created EXCEPT ![GetSession(sessions, m.session_id)] =
                                       Append(@, reply.sequence)]
         ELSE runs.created,
     acked |->
         IF reply.type = "init" THEN Append(runs.acked, << >>)
         ELSE IF reply.type = "audio"
         THEN [runs.acked EXCEPT ![GetSession(sessions, m.session_id)] =
                                     Append(@, m.payload.data)]
         ELSE runs.acked]

HistAfterMessage(nObjs) ==
    [hist EXCEPT
       !.provided = IF nObjs > Len(@) THEN Append(@, << >>) ELSE @,
       !.consumed = IF nObjs > Len(@) THEN Append(@, << >>) ELSE @]

(***************************************************************************)
(* The transport (main.py).  A POST /transcribe request is a call of       *)
(* transcribe_endpoint: pc says where it is suspended ("idle": not yet     *)
(* made, "read": in audio_file.read(), "wait": in Queue.get() under        *)
(* get_result, "done": responded), content is the uploaded file, session   *)
(* what its local `session` holds (the id string, or AnObject for an       *)
(* MCPSession), obj and gen the queue object it waits on, status and       *)
(* result the response (result << >>: the body has no transcription).  The *)
(* websocket connection is one call of websocket_transcribe: pc "closed",  *)
(* "receive" (in receive_bytes), "results" (in the async for over          *)
(* get_result, which is `consumer`), "stopping" (in stop_session) and      *)
(* "ended"; client says whether the peer is still connected, obj is the    *)
(* handler's session and sent the results the client has received.         *)
(***************************************************************************)
\* The id of the REST endpoint's session, "file_upload", and the id
\* str(time.time()) gives the websocket connection.
FileUpload == "s"
TimeId == "u1"

NoRequest ==
    [pc |-> "idle", content |-> "", session |-> "-", obj |-> 0, gen |-> 0,
     status |-> 0, result |-> << >>]

NoSocket == [pc |-> "closed", client |-> "connected", obj |-> 0, sent |-> << >>]

(***************************************************************************)
(* Actions.                                                                *)
(***************************************************************************)
Init ==
    /\ sessions = [k \in Keys |-> 0]
    /\ heap = << >>
    /\ uuids = {}
    /\ tasks = << >>
    /\ taskReg = [k \in Keys |-> 0]
    /\ joins = {}
    /\ consumer = NoConsumer
    /\ hist = [provided |-> << >>, consumed |-> << >>]
    /\ runs = [run |-> [i \in AllIds |-> [st |-> "fresh", replies |-> << >>]],
               stopped |-> {}, created |-> << >>, acked |-> << >>]
    /\ rest = [r \in 1..MaxRequests |-> NoRequest]
    /\ ws = NoSocket

\* The model's bounds on what a handler may leave.
WithinBounds(h) ==
    /\ Len(h) <= MaxObjs
    /\ \A o \in DOMAIN h :
          /\ h[o].sequence <= MaxSequence
          /\ Len(h[o].audio_queue[Len(h[o].audio_queue)]) <= MaxQueue

\* Whether handling m constructs a session with a generated id.
CallsUuid4(m) ==
    m.type = "init" /\ m.payload.valid /\ m.session_id = EmptyId

\* The values uuid.uuid4() can return when handling m ("-": it is not
\* called).
Uuid4(m) == IF CallsUuid4(m) THEN Uuids \ uuids ELSE {"-"}

\* One call of handle_message.
HandleMessage(m, uuid) ==
    LET out == Dispatch(m, uuid)
    IN  /\ WithinBounds(out.heap)
        /\ sessions' = out.sessions
        /\ heap' = Collected(out.sessions, out.heap, tasks, consumer)
        /\ uuids' = IF CallsUuid4(m) THEN uuids \cup {uuid} ELSE uuids
        /\ hist' = HistAfterMessage(Len(out.heap))
        /\ UNCHANGED <<tasks, taskReg, joins, consumer, rest, ws>>

\* The replies so far, after handle_message(m).
Replied(m, uuid) ==
    runs' = RunsAfterMessage(m, ReplyOf(m, Dispatch(m, uuid)),
                             IF CallsUuid4(m) THEN {uuid} ELSE {})

\* start_session for the session object obj, whose session_id is key.
StartSessionKeyed(key, obj) ==
    IF taskReg[key] # 0
    THEN [raised |-> TRUE, tasks |-> tasks, taskReg |-> taskReg]
    ELSE [raised |-> FALSE,
          tasks |-> Append(tasks, NewTask(obj)),
          taskReg |-> [taskReg EXCEPT ![key] = Len(tasks) + 1]]

\* A start_session that replaces the registered task (C5 must reject it).
StartSessionOut_Replaces(obj) ==
    [raised |-> FALSE,
     tasks |-> Append(tasks, NewTask(obj)),
     taskReg |-> [taskReg EXCEPT ![heap[obj].session_id] = Len(tasks) + 1]]

\* start_session(session): what it raises and the registry and tasks it
\* leaves.
StartSessionOut(obj) == StartSessionKeyed(heap[obj].session_id, obj)

\* stop_session(session_id) up to its await: what it leaves, and the task
\* it waits for (0: it returns at once).
StopSessionOut(key) ==
    LET t == taskReg[key]
        pending == t # 0 /\ tasks[t].pc # "done"
    IN  [taskReg |-> [taskReg EXCEPT ![key] = 0],
         tasks |-> IF pending THEN [tasks EXCEPT ![t].cancel = TRUE] ELSE tasks,
         joins |-> IF pending THEN joins \cup {t} ELSE joins,
         awaited |-> IF pending THEN t ELSE 0]

\* One call of start_session, for any session object the caller holds,
\* while no more than n tasks have been created.
StartSessionWithin(obj, n) ==
    LET out == StartSessionOut(obj)
    IN  /\ Len(out.tasks) <= n
        /\ tasks' = out.tasks
        /\ taskReg' = out.taskReg
        /\ UNCHANGED <<sessions, heap, uuids, joins, consumer, hist, runs, rest, ws>>

StartSession(obj) == StartSessionWithin(obj, MaxTasks)

\* stop_session(session_id) up to its await: pop the task, cancel it (which
\* does nothing to a finished task) and wait for it.  A cancelled task
\* waits on its queue no longer.
StopSession(key) ==
    LET out == StopSessionOut(key)
    IN  /\ taskReg' = out.taskReg
        /\ tasks' = out.tasks
        /\ joins' = out.joins
        /\ heap' = Collected(sessions, heap, tasks', consumer)
        /\ UNCHANGED <<sessions, uuids, consumer, hist, runs, rest, ws>>

\* stop_session resumes when the task it awaits has finished; the
\* CancelledError the await may raise is swallowed.
StopSessionReturn(t) ==
    /\ t \in joins
    /\ tasks[t].pc = "done"
    /\ joins' = joins \ {t}
    /\ UNCHANGED <<sessions, heap, uuids, tasks, taskReg, consumer, hist, runs,
                 rest, ws>>

\* The state after task t has run from s to out.
TaskRan(t, out) ==
    /\ tasks' = [tasks EXCEPT ![t] = out.t]
    /\ heap' = Collected(sessions, [heap EXCEPT ![tasks[t].obj] = out.s],
                          tasks', consumer)
    /\ UNCHANGED <<sessions, uuids, taskReg, joins, consumer, runs, rest, ws>>

\* The first run of a task: _process_session enters process_stream and
\* get_audio.
TaskStart(t) ==
    /\ tasks[t].pc = "created"
    /\ ~tasks[t].cancel
    /\ TaskRan(t, RunLoop(heap[tasks[t].obj], tasks[t]))
    /\ UNCHANGED hist

\* A task that resumes with the newest item of its queue (C19 must reject
\* it).
TaskWake_Lifo(t) ==
    LET o == tasks[t].obj
        g == tasks[t].gen
        q == heap[o].audio_queue[g]
    IN  /\ tasks[t].pc = "wait"
        /\ ~tasks[t].cancel
        /\ q # << >>
        /\ TaskRan(t, ProcessChunk([heap[o] EXCEPT
                                      !.audio_queue[g] = SubSeq(q, 1, Len(q) - 1)],
                                   [tasks[t] EXCEPT !.pc = "run", !.gen = 0],
                                   q[Len(q)]))
        /\ UNCHANGED hist

\* A task suspended in Queue.get() resumes when the queue object it waits
\* on holds an item.
TaskWake(t) ==
    LET o == tasks[t].obj
        g == tasks[t].gen
        q == heap[o].audio_queue[g]
    IN  /\ tasks[t].pc = "wait"
        /\ ~tasks[t].cancel
        /\ q # << >>
        /\ TaskRan(t, ProcessChunk([heap[o] EXCEPT !.audio_queue[g] = Tail(q)],
                                   [tasks[t] EXCEPT !.pc = "run", !.gen = 0], Head(q)))
        /\ UNCHANGED hist

\* The await of _transcribe ends.
TranscribeReturn(t, outcome) ==
    LET o == tasks[t].obj
    IN  /\ tasks[t].pc = "call"
        /\ ~tasks[t].cancel
        /\ IF ~outcome.ok
           THEN /\ TaskRan(t, AfterError(heap[o], tasks[t]))
                /\ UNCHANGED hist
           ELSE /\ Len(hist.provided[o]) < MaxResults
                /\ TaskRan(t, AfterResult(heap[o], tasks[t], Transcribe(outcome.body)))
                /\ hist' = [hist EXCEPT !.provided[o] = Append(@, outcome.body)]

\* A cancelled task runs: CancelledError is thrown into it.
TaskCancelled(t) ==
    /\ tasks[t].pc # "done"
    /\ tasks[t].cancel
    /\ TaskRan(t, AfterCancel(heap[tasks[t].obj], tasks[t]))
    /\ UNCHANGED hist

\* The state after the consumer has run.
ConsumerRan(o, out) ==
    /\ consumer' = out.c
    /\ heap' = Collected(sessions, [heap EXCEPT ![o] = out.s], tasks, consumer')
    /\ hist' = [hist EXCEPT !.consumed[o] = @ \o out.yielded]
    /\ UNCHANGED <<sessions, uuids, tasks, taskReg, joins, runs, rest, ws>>

\* The transport starts iterating over get_result() of a session it holds.
ConsumerStart(o) ==
    /\ consumer.pc \in {"idle", "done"}
    /\ ConsumerRan(o, ConsumeLoop(heap[o], [NoConsumer EXCEPT !.obj = o]))

\* The consumer suspended in Queue.get() resumes when the queue object it
\* waits on holds an item, and yields it.
ConsumerWake ==
    LET o == consumer.obj
        g == consumer.gen
        q == heap[o].result_queue[g]
    IN  /\ consumer.pc = "wait"
        /\ q # << >>
        /\ ConsumerRan(o, [s |-> [heap[o] EXCEPT !.result_queue[g] = Tail(q)],
                           c |-> [consumer EXCEPT !.pc = "body"],
                           yielded |-> << Head(q) >>])

\* The loop body is done and the consumer asks get_result for the next item.
ConsumerResume ==
    /\ consumer.pc = "body"
    /\ ConsumerRan(consumer.obj, ConsumeLoop(heap[consumer.obj], consumer))

(***************************************************************************)
(* POST /transcribe (main.py 54-107).                                      *)
(***************************************************************************)
\* The messages the endpoints build: Init with the default audio format and
\* config, Audio with the bytes received, Stop.
InitMessage(id) == Message("init", id, 0, NoPayload)

AudioMessage(id, sequence, data) ==
    Message("audio", id, sequence,
            [NoPayload EXCEPT !.has_data = TRUE, !.data = data])

StopMessage(id, sequence) == Message("stop", id, sequence, NoPayload)

\* What stands for an MCPSession object in the local `session`.
AnObject == "MCPSession"

\* The response of request r: the returned body, or HTTPException(500) from
\* the except clause.
Responded(r, status, result) ==
    [rest EXCEPT ![r] = [@ EXCEPT !.pc = "done", !.status = status,
                                  !.result = result]]

\* The handler's state after a call of request r.
RestLeaves(reg, h) ==
    /\ WithinBounds(h)
    /\ sessions' = reg
    /\ heap' = Collected(reg, h, tasks, consumer)
    /\ hist' = HistAfterMessage(Len(h))

\* The r-th request arrives, with the upload `content`:
\* session = sessions.get("file_upload") or handle_message(Init).session_id,
\* up to await audio_file.read().  A registered MCPSession is truthy, and
\* then `session` is the object and Init is not sent.
RestBegin(r, content) ==
    LET m == InitMessage(FileUpload)
        out == Dispatch(m, "-")
    IN  /\ rest[r].pc = "idle"
        /\ \A q \in 1..(r - 1) : rest[q].pc # "idle"
        /\ IF GetSession(sessions, FileUpload) # 0
           THEN /\ rest' = [rest EXCEPT ![r] = [@ EXCEPT !.pc = "read",
                                                         !.content = content,
                                                         !.session = AnObject]]
                /\ UNCHANGED <<sessions, heap, hist>>
           ELSE /\ RestLeaves(out.sessions, out.heap)
                /\ rest' = [rest EXCEPT ![r] = [@ EXCEPT !.pc = "read",
                                                         !.content = content,
                                                         !.session = ReplyOf(m, out).session_id]]
        /\ UNCHANGED <<uuids, tasks, taskReg, joins, consumer, runs, ws>>

\* From the first result (None: the iteration ended without one) to the
\* response: Stop, and the result or {"error": "No transcription result"},
\* both with status 200.
RestStopAndReturn(r, reg, h, yielded) ==
    LET out == HandleStopIn(reg, h, StopMessage(rest[r].session, 2))
    IN  /\ RestLeaves(out.sessions, out.heap)
        /\ rest' = Responded(r, 200, yielded)

\* The request after audio_file.read(): MCPMessage(session_id=session) is a
\* ValidationError when `session` is an object; otherwise Audio,
\* get_session(session) (None has no get_result: AttributeError) and the
\* first step of get_result.  Every exception becomes HTTPException(500).
RestAfterRead(r) ==
    IF rest[r].session = AnObject
    THEN /\ rest' = Responded(r, 500, << >>)
         /\ UNCHANGED <<sessions, heap, hist>>
    ELSE LET m == AudioMessage(rest[r].session, 1, rest[r].content)
             out == Dispatch(m, "-")
             obj == GetSession(out.sessions, rest[r].session)
         IN  IF obj = 0
             THEN /\ RestLeaves(out.sessions, out.heap)
                  /\ rest' = Responded(r, 500, << >>)
             ELSE LET it == ConsumeLoop(out.heap[obj], [NoConsumer EXCEPT !.obj = obj])
                      h == [out.heap EXCEPT ![obj] = it.s]
                  IN  IF it.c.pc = "wait"
                      THEN /\ RestLeaves(out.sessions, h)
                           /\ rest' = [rest EXCEPT ![r] = [@ EXCEPT !.pc = "wait",
                                                                    !.obj = obj,
                                                                    !.gen = it.c.gen]]
                      ELSE RestStopAndReturn(r, out.sessions, h, it.yielded)

\* The request suspended in Queue.get() once the queue object it waits on
\* holds an item: result = r, break, Stop, return.
RestAfterGet(r) ==
    LET obj == rest[r].obj
        q == heap[obj].result_queue[rest[r].gen]
    IN  RestStopAndReturn(r, sessions,
                          [heap EXCEPT ![obj].result_queue[rest[r].gen] = Tail(q)],
                          << Head(q) >>)

\* Request r runs from its suspension to the next one or to its response.
RestResume(r) ==
    /\ \/ rest[r].pc = "read"
       \/ /\ rest[r].pc = "wait"
          /\ heap[rest[r].obj].result_queue[rest[r].gen] # << >>
    /\ IF rest[r].pc = "read" THEN RestAfterRead(r) ELSE RestAfterGet(r)
    /\ UNCHANGED <<uuids, tasks, taskReg, joins, consumer, runs, ws>>

(***************************************************************************)
(* /ws/transcribe (main.py 109-184).                                       *)
(***************************************************************************)
\* The id of the handler's session.
WsId == heap[ws.obj].session_id

\* A client connects: accept, Init with the id str(time.time()),
\* get_session, Start, start_session, up to the first receive_bytes().  A
\* start_session that raises is outside the inner try: the handler reports
\* the error and closes the connection, and no Stop is sent.
WsConnect ==
    LET m == InitMessage(TimeId)
        init == Dispatch(m, "-")
        obj == GetSession(init.sessions, ReplyOf(m, init).session_id)
        id == init.heap[obj].session_id
        start == HandleStartIn(init.sessions, init.heap, Message("start", id, 1, NoPayload))
        out == StartSessionKeyed(id, obj)
    IN  /\ ws.pc = "closed"
        /\ WithinBounds(start.heap)
        /\ Len(out.tasks) <= MaxTasks
        /\ sessions' = start.sessions
        /\ tasks' = out.tasks
        /\ taskReg' = out.taskReg
        /\ heap' = Collected(sessions', start.heap, tasks', consumer)
        /\ hist' = HistAfterMessage(Len(start.heap))
        /\ ws' = [ws EXCEPT !.pc = IF out.raised THEN "ended" ELSE "receive",
                            !.obj = obj]
        /\ UNCHANGED <<uuids, joins, consumer, runs, rest>>

\* The client goes away.
ClientDisconnect ==
    /\ ws.pc \in {"receive", "results"}
    /\ ws.client = "connected"
    /\ ws' = [ws EXCEPT !.client = "gone"]
    /\ UNCHANGED <<sessions, heap, uuids, tasks, taskReg, joins, consumer, hist,
                   runs, rest>>

\* The handler after one step of `async for result in session.get_result()`
\* that left the session as s: suspended in Queue.get() or in send_json, or
\* back at receive_bytes() when the iteration has ended.
WsLooped(reg, h, it) ==
    /\ consumer' = it.c
    /\ sessions' = reg
    /\ heap' = Collected(reg, [h EXCEPT ![ws.obj] = it.s], tasks, consumer')
    /\ hist' = [hist EXCEPT !.consumed[ws.obj] = @ \o it.yielded]
    /\ UNCHANGED <<uuids, tasks, taskReg, joins, runs, rest>>

\* receive_bytes() returns data: Audio (its reply is not looked at), then
\* the iteration over get_result() begins.
WsReceive(data) ==
    LET out == Dispatch(AudioMessage(WsId, heap[ws.obj].sequence, data), "-")
        it == ConsumeLoop(out.heap[ws.obj], [NoConsumer EXCEPT !.obj = ws.obj])
    IN  /\ ws.pc = "receive"
        /\ ws.client = "connected"
        /\ WithinBounds(out.heap)
        /\ WsLooped(out.sessions, out.heap, it)
        /\ ws' = [ws EXCEPT !.pc = IF it.c.pc = "done" THEN "receive" ELSE "results"]

\* The inner finally clause: Stop (its reply is not looked at), then
\* stop_session up to its await; the iteration over get_result() is
\* abandoned.
WsFinally ==
    LET stop == Dispatch(StopMessage(WsId, heap[ws.obj].sequence), "-")
        out == StopSessionOut(WsId)
    IN  /\ WithinBounds(stop.heap)
        /\ sessions' = stop.sessions
        /\ tasks' = out.tasks
        /\ taskReg' = out.taskReg
        /\ joins' = out.joins
        /\ consumer' = IF consumer.obj = ws.obj THEN NoConsumer ELSE consumer
        /\ heap' = Collected(sessions', stop.heap, tasks', consumer')
        /\ ws' = [ws EXCEPT !.pc = IF out.awaited # 0 THEN "stopping" ELSE "ended"]
        /\ UNCHANGED <<uuids, hist, runs, rest>>

\* receive_bytes() raises WebSocketDisconnect: break, and the finally
\* clause.
WsDisconnected ==
    /\ ws.pc = "receive"
    /\ ws.client = "gone"
    /\ WsFinally

\* A send_json that loses the result (C15 must reject it).
WsSent_Lost(result) == ws.sent

\* What the client has received once send_json(result.dict()) has gone
\* through.
WsSent(result) == Append(ws.sent, result)

\* send_json ends.  The client gets the result and the iteration goes on;
\* or the client is gone, and the send either raises, which leads to the
\* finally clause, or goes unnoticed into a connection not yet known to be
\* down.
WsSend ==
    LET result == hist.consumed[ws.obj][Len(hist.consumed[ws.obj])]
        it == ConsumeLoop(heap[ws.obj], consumer)
    IN  /\ ws.pc = "results"
        /\ consumer.pc = "body"
        /\ \/ /\ ws.client = "connected"
              /\ WsLooped(sessions, heap, it)
              /\ ws' = [ws EXCEPT !.sent = WsSent(result),
                                  !.pc = IF it.c.pc = "done" THEN "receive" ELSE "results"]
           \/ /\ ws.client = "gone"
              /\ WsLooped(sessions, heap, it)
              /\ ws' = [ws EXCEPT !.pc = IF it.c.pc = "done" THEN "receive" ELSE "results"]
           \/ /\ ws.client = "gone"
              /\ WsFinally

\* stop_session returns when the task has ended; the handler closes the
\* connection.
WsStopped ==
    /\ ws.pc = "stopping"
    /\ \E t \in joins :
          /\ tasks[t].pc = "done"
          /\ joins' = joins \ {t}
    /\ ws' = [ws EXCEPT !.pc = "ended"]
    /\ UNCHANGED <<sessions, heap, uuids, tasks, taskReg, consumer, hist, runs, rest>>

\* The session objects a caller can get from get_session.
Registered == {sessions[k] : k \in Keys} \ {0}

\* The messages a caller can send in the current state.
Messages ==
    UNION {{Message(type, id, seq, payload) : payload \in PayloadsOf(type)} :
              type \in MessageTypes, id \in ClientIds, seq \in MsgSequences}

Next ==
    \/ \E m \in Messages :
          /\ ~CallsUuid4(m)
          /\ Len(Dispatch(m, "-").heap) <= MaxStreams
          /\ HandleMessage(m, "-")
          /\ UNCHANGED runs
    \/ \E o \in Registered : StartSession(o)
    \/ \E key \in Keys : StopSession(key)
    \/ \E t \in DOMAIN tasks : StopSessionReturn(t)
    \/ \E t \in DOMAIN tasks : TaskStart(t)
    \/ \E t \in DOMAIN tasks : TaskWake(t)
    \/ \E t \in DOMAIN tasks, outcome \in Outcomes : TranscribeReturn(t, outcome)
    \/ \E t \in DOMAIN tasks : TaskCancelled(t)
    \/ \E o \in Registered : ConsumerStart(o)
    \/ ConsumerWake
    \/ ConsumerResume

Spec == Init /\ [][Next]_vars

\* The event loop runs every coroutine that is ready: a task that can take a
\* step (its queue holds an item, its HTTP call has ended, it was cancelled)
\* eventually takes it, and so does the consumer.  Clients are under no
\* such obligation.
TaskStep(t) ==
    /\ t \in DOMAIN tasks
    /\ \/ TaskStart(t)
       \/ TaskWake(t)
       \/ \E outcome \in Outcomes : TranscribeReturn(t, outcome)
       \/ TaskCancelled(t)

ConsumerStep == ConsumerWake \/ ConsumerResume

SpecFair ==
    /\ Spec
    /\ \A t \in 1..MaxTasks : WF_vars(TaskStep(t))
    /\ WF_vars(ConsumerStep)

\* The protocol handler alone, with the history of its replies and with
\* sessions of generated ids.  The handler uses neither the config nor the
\* audio data: here they are the default config and well-formed PCM.
ProtocolMessages ==
    {m \in Messages :
        /\ m.payload.max_context_length = Some(DefaultMaxContextLength)
        /\ m.payload.has_data => m.payload.data = "a"}

NextProtocol ==
    \E m \in ProtocolMessages : \E uuid \in Uuid4(m) :
        HandleMessage(m, uuid) /\ Replied(m, uuid)

SpecProtocol == Init /\ [][NextProtocol]_vars

\* One session with its pipeline, and the log of the chunks acknowledged:
\* a caller's Init, Start, Audio and Stop messages on its id with the
\* default config, start_session and stop_session, and the task.
FifoMessages ==
    {m \in Messages :
        /\ m.session_id \in NamedIds
        /\ m.type \in HandledTypes
        /\ m.payload.valid
        /\ m.payload.max_context_length = Some(DefaultMaxContextLength)}

NextFifo ==
    \/ \E m \in FifoMessages :
          /\ Len(Dispatch(m, "-").heap) <= MaxStreams
          /\ HandleMessage(m, "-")
          /\ Replied(m, "-")
    \/ \E o \in Registered : StartSession(o)
    \/ \E key \in Keys : StopSession(key)
    \/ \E t \in DOMAIN tasks : StopSessionReturn(t)
    \/ \E t \in DOMAIN tasks : TaskStart(t)
    \/ \E t \in DOMAIN tasks : TaskWake(t)
    \/ \E t \in DOMAIN tasks, outcome \in Outcomes : TranscribeReturn(t, outcome)
    \/ \E t \in DOMAIN tasks : TaskCancelled(t)

SpecFifo == Init /\ [][NextFifo]_vars

\* The application: requests to POST /transcribe, one websocket connection
\* and the pipeline task it starts.  Nothing else calls the handler or the
\* service.
NextTransport ==
    \/ \E r \in 1..MaxRequests, content \in Chunks : RestBegin(r, content)
    \/ \E r \in 1..MaxRequests : RestResume(r)
    \/ WsConnect
    \/ \E data \in Chunks : WsReceive(data)
    \/ ClientDisconnect
    \/ WsDisconnected
    \/ ConsumerWake
    \/ WsSend
    \/ WsStopped
    \/ \E t \in DOMAIN tasks : TaskStart(t)
    \/ \E t \in DOMAIN tasks : TaskWake(t)
    \/ \E t \in DOMAIN tasks, outcome \in Outcomes : TranscribeReturn(t, outcome)
    \/ \E t \in DOMAIN tasks : TaskCancelled(t)

\* The event loop runs every handler that can go on, as it does the tasks;
\* clients connect, send and disconnect as they please.
SpecTransport ==
    /\ Init /\ [][NextTransport]_vars
    /\ \A t \in 1..MaxTasks : WF_vars(TaskStep(t))
    /\ \A r \in 1..MaxRequests : WF_vars(RestResume(r))
    /\ WF_vars(WsDisconnected)
    /\ WF_vars(ConsumerWake)
    /\ WF_vars(WsSend)
    /\ WF_vars(WsStopped)

\* Sessions and tasks coming and going under one id: a caller's Init,
\* Start, Audio and Stop messages on its id with the default config and
\* well-formed PCM, start_session and stop_session as often as the bounds
\* allow, and the tasks.
LifecycleMessages ==
    {m \in FifoMessages : m.payload.has_data => m.payload.data = "a"}

NextLifecycle ==
    \/ \E m \in LifecycleMessages : HandleMessage(m, "-") /\ UNCHANGED runs
    \/ \E o \in Registered : StartSessionWithin(o, MaxSpawned)
    \/ \E key \in Keys : StopSession(key)
    \/ \E t \in DOMAIN tasks : StopSessionReturn(t)
    \/ \E t \in DOMAIN tasks : TaskStart(t)
    \/ \E t \in DOMAIN tasks : TaskWake(t)
    \/ \E t \in DOMAIN tasks, outcome \in Outcomes : TranscribeReturn(t, outcome)
    \/ \E t \in DOMAIN tasks : TaskCancelled(t)

SpecLifecycle == Init /\ [][NextLifecycle]_vars

(***************************************************************************)
(* update_context on its own: one session of any max_context_length the    *)
(* config accepts (Optional[int] without constraints: None, 0, negative    *)
(* and positive integers), given any texts.  A call that raises leaves the *)
(* buffer as the failing pop found it.                                     *)
(***************************************************************************)
ContextLimits == {None, Some(0), Some(-1), Some(1), Some(2)}

Texts == UNION {[1..n -> Chars] : n \in 0..MaxText}

InitContext ==
    /\ \E limit \in ContextLimits :
          heap = << NewSession("s", [max_context_length |-> limit]) >>
    /\ sessions = [k \in Keys |-> IF k = "s" THEN 1 ELSE 0]
    /\ uuids = {}
    /\ tasks = << >>
    /\ taskReg = [k \in Keys |-> 0]
    /\ joins = {}
    /\ consumer = NoConsumer
    /\ hist = [provided |-> << << >> >>, consumed |-> << << >> >>]
    /\ runs = [run |-> [i \in AllIds |-> NoRun], stopped |-> {},
               created |-> << << >> >>, acked |-> << << >> >>]
    /\ rest = [r \in 1..MaxRequests |-> NoRequest]
    /\ ws = NoSocket

UpdateContextCall(text) ==
    LET uc == UpdateContext(heap[1].context_buffer, heap[1].max_context_length, text)
    IN  /\ Len(uc.buf) <= MaxBuffer
        /\ heap' = [heap EXCEPT ![1].context_buffer = uc.buf]
        /\ UNCHANGED <<sessions, uuids, tasks, taskReg, joins, consumer, hist, runs,
                     rest, ws>>

NextContext == \E text \in Texts : UpdateContextCall(text)

SpecContext == InitContext /\ [][NextContext]_vars

(***************************************************************************)
(* Properties.                                                             *)
(***************************************************************************)
\* The replies of the run on id i are all non-Error and numbered 0, 1, 2...
InSequence(i) ==
    \A k \in DOMAIN runs.run[i].replies :
        /\ runs.run[i].replies[k].type # "error"
        /\ runs.run[i].replies[k].sequence = k - 1

\* What handle_message(m) gives its caller in the current state.
Reply(m) == ReplyOf(m, Dispatch(m, "-"))

\* C1 as stated: for every run Init, Start, Audio x n (each with data), Stop
\* on a session id that was never registered, the replies are all non-Error
\* and their sequence numbers are 0, 1, ..., n+2 in handling order, whatever
\* sequence numbers the messages carry.  Under SpecProtocol.
C1_Original == \A i \in AllIds : InSequence(i)

\* C1, amended: the same for every such run on a non-empty session id whose
\* Init carries a config the configuration accepts.  (An Init with the
\* empty id registers the session under a generated id, so that the Start
\* that follows on the empty id is answered with an Error.)
C1_RepliesInSequence == \A i \in AllIds \ {EmptyId} : InSequence(i)

\* A whole run Init, Start, Audio, Stop on "s" has been answered.
C1_Witness ==
    /\ runs.run["s"].st = "stop"
    /\ Len(runs.run["s"].replies) = 4

\* C2 as stated: every Start, Audio or Stop message whose session id is not
\* in the registry is answered with an Error reply whose error code is of
\* the "not found" class, and no exception escapes.  Under SpecProtocol.
C2_Original ==
    \A m \in Messages :
        (m.type \in {"start", "audio", "stop"} /\ GetSession(sessions, m.session_id) = 0)
        => /\ Reply(m).type = "error"
           /\ Reply(m).code \in {"not_found", "session_not_found"}
           /\ ~Reply(m).raised

\* C2, amended: every such message is answered with an Error reply whose
\* error code is "protocol_error", the code of every Error reply, and whose
\* message text says that the session was not found; no exception escapes.
C2_NotFoundIsProtocolError ==
    \A m \in Messages :
        (m.type \in {"start", "audio", "stop"} /\ GetSession(sessions, m.session_id) = 0)
        => /\ Reply(m).type = "error"
           /\ Reply(m).code = "protocol_error"
           /\ Reply(m).message = "Session not found"
           /\ ~Reply(m).raised

\* An id removed by Stop, and a Start on it answered with an Error.
C2_Witness ==
    /\ "s" \in runs.stopped
    /\ Reply(Message("start", "s", 7, NoPayload)).type = "error"

\* C3: after a successful Stop on a session id the id is absent from the
\* registry and every Start, Audio or Stop on it is answered with an Error,
\* until an Init for that id is handled; such an Init registers an active
\* session under the id, and an id in the registry is usable: Start, Audio
\* with data and Stop on it succeed.  Under SpecProtocol.
C3_StoppedIdAbsentUntilInit ==
    /\ \A i \in runs.stopped : \A m \in Messages :
          m.session_id = i =>
             /\ GetSession(sessions, i) = 0
             /\ m.type \in {"start", "audio", "stop"} => Reply(m).type = "error"
             /\ (m.type = "init" /\ m.payload.valid) =>
                   LET out == Dispatch(m, "-")
                   IN  /\ Reply(m).type = "init"
                       /\ GetSession(out.sessions, i) # 0
                       /\ out.heap[GetSession(out.sessions, i)].is_active
    /\ \A m \in Messages :
          (/\ GetSession(sessions, m.session_id) # 0
           /\ m.type \in {"start", "audio", "stop"}
           /\ m.type = "audio" => m.payload.has_data)
          => Reply(m).type = m.type

\* The id "s" was stopped (its first session object is closed) and then
\* initialised again: it is bound to a second, active session object.
C3_Witness ==
    /\ Len(heap) = 2
    /\ heap[1].session_id = "s" /\ ~heap[1].is_active
    /\ sessions["s"] = 2 /\ heap[2].is_active
    /\ "s" \notin runs.stopped

\* C4 as stated: for every max_context_length the configuration accepts
\* (0 and absent included) and every sequence of update_context calls, each
\* call returns (it never fails), leaves a buffer whose whitespace-split
\* token count is <= max_context_length, and leaves only whole strings
\* that were appended.  Under SpecContext.
C4_Original ==
    \A text \in Texts :
        LET s == heap[1]
            uc == UpdateContext(s.context_buffer, s.max_context_length, text)
            appended == Append(s.context_buffer, text)
        IN  /\ ~uc.raised
            /\ ~s.max_context_length.none =>
                   SumTokens(uc.buf) <= s.max_context_length.n
            /\ \E d \in 0..Len(appended) : uc.buf = SubSeq(appended, d + 1, Len(appended))

\* C5: a start_session call for a session id that has a registered task
\* (start_session was called for it and stop_session was not, since) raises,
\* creates no task and leaves the registry as it is.  Under Spec.
C5_SecondStartRaises ==
    \A obj \in DOMAIN heap :
        taskReg[heap[obj].session_id] # 0 =>
            /\ StartSessionOut(obj).raised
            /\ StartSessionOut(obj).tasks = tasks
            /\ StartSessionOut(obj).taskReg = taskReg

\* The task of the first call is registered and at work, not cancelled.
C5_Witness ==
    \E key \in Keys :
        /\ taskReg[key] # 0
        /\ tasks[taskReg[key]].pc = "call"
        /\ ~tasks[taskReg[key]].cancel
        /\ sessions[key] # 0
        /\ StartSessionOut(sessions[key]).raised

\* The provider call of task t fails (no response is recorded) while the
\* session is active and the task is not cancelled.
ProviderCallFails(t) ==
    /\ t \in DOMAIN tasks
    /\ tasks[t].pc = "call" /\ ~tasks[t].cancel
    /\ heap[tasks[t].obj].is_active
    /\ tasks'[t] # tasks[t] /\ tasks'[t].cancel = tasks[t].cancel
    /\ hist'.provided = hist.provided

\* Task t has failed on chunk k, the last chunk it took, and waits on a
\* queue that holds chunk k+1; the session is active, the task not cancelled.
FailedAndNextQueued(t, k) ==
    /\ t \in DOMAIN tasks
    /\ tasks[t].pc = "wait" /\ ~tasks[t].cancel
    /\ tasks[t].taken = k /\ k \in tasks[t].failed
    /\ heap[tasks[t].obj].is_active
    /\ heap[tasks[t].obj].audio_queue[tasks[t].gen] # << >>

\* Chunk n was submitted to the provider by task t, or the proviso of C6 no
\* longer holds: the session was closed or the task cancelled.
SubmittedUnlessEnded(t, n) ==
    /\ t \in DOMAIN tasks
    /\ \/ n \in tasks[t].submitted
       \/ tasks[t].cancel
       \/ ~heap[tasks[t].obj].is_active

\* C6 as stated: a failure of the provider call for chunk k neither ends
\* the task nor closes the session, and after a failure on chunk k
\* (conversion, provider call or any other non-cancellation failure), if the
\* session stays active and the task is not cancelled, the chunk k+1 queued
\* for the session is eventually submitted to the provider.  Under SpecFair.
C6_Original ==
    /\ [][\A t \in 1..MaxTasks :
             ProviderCallFails(t) =>
                 tasks'[t].pc # "done" /\ heap'[tasks[t].obj].is_active]_vars
    /\ \A t \in 1..MaxTasks : \A k \in 1..MaxSequence :
          FailedAndNextQueued(t, k) ~> SubmittedUnlessEnded(t, k + 1)

\* C6, amended: the same, for a chunk k+1 that is non-empty and that
\* converts to WAV: an empty chunk is skipped and a chunk whose conversion
\* fails is dropped, neither is submitted to the provider.
C6_PipelineSurvivesFailure ==
    /\ [][\A t \in 1..MaxTasks :
             ProviderCallFails(t) =>
                 tasks'[t].pc # "done" /\ heap'[tasks[t].obj].is_active]_vars
    /\ \A t \in 1..MaxTasks : \A k \in 1..MaxSequence :
          (/\ FailedAndNextQueued(t, k)
           /\ Head(heap[tasks[t].obj].audio_queue[tasks[t].gen]) = "a")
          ~> SubmittedUnlessEnded(t, k + 1)

\* A task has failed on chunk k and its call for chunk k+1 is under way.
C6_Witness ==
    \E t \in DOMAIN tasks : \E k \in tasks[t].failed :
        /\ tasks[t].pc = "call" /\ ~tasks[t].cancel
        /\ tasks[t].taken = k + 1
        /\ (k + 1) \in tasks[t].submitted
        /\ heap[tasks[t].obj].is_active

\* C7 as stated: for a registered session that is active (not stopped), the
\* results consumed so far followed by the results waiting in its outbound
\* queue are one TranscriptionResult per chunk the provider returned a
\* response for, in order, each equal to that response with every Word's
\* type defaulting to "speech", and nothing else.  Under Spec.
C7_Original ==
    \A o \in Registered :
        heap[o].is_active =>
            hist.consumed[o] \o heap[o].result_queue[Len(heap[o].result_queue)]
               = [i \in DOMAIN hist.provided[o] |-> Transcribe(hist.provided[o][i])]

\* C8: a handle_message call that returns an Error reply leaves the registry
\* and every session object (sequence counter, active flag, queues, context
\* buffer) as they were.  Under Spec.
C8_ErrorLeavesStateUnchanged ==
    \A m \in Messages : \A uuid \in Uuid4(m) :
        ReplyOf(m, Dispatch(m, uuid)).type = "error" =>
            /\ Dispatch(m, uuid).sessions = sessions
            /\ Dispatch(m, uuid).heap = heap

\* A registered session with audio queued and context kept, and an Audio
\* message without data on it answered with an Error.
C8_Witness ==
    \E o \in Registered :
        /\ heap[o].context_buffer # << >>
        /\ heap[o].audio_queue[Len(heap[o].audio_queue)] # << >>
        /\ heap[o].sequence > 0
        /\ Reply(Message("audio", heap[o].session_id, 7, NoPayload)).type = "error"

\* C9: handle_message raises for no message; every failure of the dispatch
\* (unknown session id, Audio without data, a kind other than Init, Start,
\* Audio, Stop, a config that is not accepted) is answered with an Error
\* reply with code "protocol_error" and the session id and sequence number
\* of the incoming message.  Under SpecProtocol.
C9_FailuresBecomeProtocolErrors ==
    \A m \in Messages : \A uuid \in Uuid4(m) :
        LET out == Dispatch(m, uuid)
            r == ReplyOf(m, out)
        IN  /\ ~r.raised
            /\ out.raised =>
                  /\ r.type = "error" /\ r.code = "protocol_error"
                  /\ r.session_id = m.session_id /\ r.sequence = m.sequence
            /\ (\/ m.type \in {"start", "audio", "stop"}
                      /\ GetSession(sessions, m.session_id) = 0
                \/ m.type = "audio" /\ ~m.payload.has_data
                \/ m.type \notin HandledTypes)
               => out.raised

\* A session whose own sequence number is 2, and an Audio message without
\* data and with sequence number 7 on it, answered with an Error numbered 7.
C9_Witness ==
    /\ sessions["s"] # 0
    /\ heap[sessions["s"]].sequence = 2
    /\ Reply(Message("audio", "s", 7, NoPayload)).type = "error"
    /\ Reply(Message("audio", "s", 7, NoPayload)).sequence = 7

\* C10 as stated: a consumer suspended in get_result, or a task suspended in
\* get_audio, on a session that has become inactive eventually ends its
\* iteration, without being cancelled and without a further item.  Under
\* SpecFair.
C10_Original ==
    /\ (consumer.pc = "wait" /\ ~heap[consumer.obj].is_active)
          ~> (consumer.pc # "wait")
    /\ \A t \in 1..MaxTasks :
          (/\ t \in DOMAIN tasks
           /\ tasks[t].pc = "wait" /\ ~tasks[t].cancel
           /\ ~heap[tasks[t].obj].is_active)
          ~> (t \in DOMAIN tasks /\ (tasks[t].pc = "done" \/ tasks[t].cancel))

\* C11 as stated: stop_session(id) returns without raising; when it returns
\* after a task was registered for id, the id is not in the task registry,
\* the task has finished and the session it served is closed, whether the
\* call had to wait for the task or the task had already ended; with no
\* task registered it changes nothing.  Under Spec.
C11_Original ==
    [][/\ \A t \in DOMAIN tasks :
             (t \in joins /\ t \notin joins') =>
                 /\ tasks[t].pc = "done"
                 /\ \A key \in Keys : taskReg'[key] # t
                 /\ ~heap[tasks[t].obj].is_active
       /\ \A key \in Keys :
             (/\ taskReg[key] # 0 /\ taskReg'[key] = 0
              /\ tasks[taskReg[key]].pc = "done")
             => /\ joins' = joins
                /\ ~heap[tasks[taskReg[key]].obj].is_active
       /\ \A key \in Keys :
             (taskReg[key] = 0 /\ StopSession(key)) => UNCHANGED vars]_vars

\* C12 as stated: an Audio message to a registered session whose active
\* flag is false (closed by the cleanup of its pipeline task, say) is not
\* acknowledged as received, and its chunk is not enqueued.  Under Spec.
C12_Original ==
    \A m \in Messages :
        (/\ m.type = "audio"
         /\ GetSession(sessions, m.session_id) # 0
         /\ ~heap[GetSession(sessions, m.session_id)].is_active)
        => /\ Reply(m).type # "audio"
           /\ Dispatch(m, "-").heap = heap

\* After handle_message(m) with outcome out, the registry maps id to a new
\* session object that is fresh but for the reply it has stamped, built from
\* the payload of m; every other entry and object is as before.
FreshlyRegistered(m, out, id) ==
    LET new == Len(heap) + 1
    IN  /\ id \in Keys
        /\ Len(out.heap) = new
        /\ out.sessions = [sessions EXCEPT ![id] = new]
        /\ \A o \in DOMAIN heap : out.heap[o] = heap[o]
        /\ out.heap[new].session_id = id
        /\ out.heap[new].max_context_length = m.payload.max_context_length
        /\ out.heap[new].sequence = 1
        /\ out.heap[new].context_buffer = << >>
        /\ out.heap[new].is_active
        /\ out.heap[new].audio_queue = << << >> >>
        /\ out.heap[new].result_queue = << << >> >>

\* C13 as stated: an Init message for session id s always succeeds, whether
\* or not s is registered: the reply is an Init message with status "ready"
\* and sequence 0, and the registry maps s to a fresh session built from the
\* payload, with nothing of an earlier session of s.  Under SpecProtocol.
C13_Original ==
    \A m \in Messages : \A uuid \in Uuid4(m) :
        m.type = "init" =>
            LET out == Dispatch(m, uuid)
                r == ReplyOf(m, out)
            IN  /\ r.type = "init" /\ r.status = "ready" /\ r.sequence = 0
                /\ FreshlyRegistered(m, out, m.session_id)

\* C13, amended: an Init message for session id s whose audio format and
\* config the configuration accepts succeeds, whether or not s is
\* registered, with that reply and that effect, the session being registered
\* under s, or for the empty id under the generated id that the reply
\* carries; an Init whose payload is not accepted is answered with an Error.
C13_InitOverwrites ==
    \A m \in Messages : \A uuid \in Uuid4(m) :
        m.type = "init" =>
            LET out == Dispatch(m, uuid)
                r == ReplyOf(m, out)
            IN  IF m.payload.valid
                THEN /\ r.type = "init" /\ r.status = "ready" /\ r.sequence = 0
                     /\ r.session_id = IF m.session_id = EmptyId THEN uuid
                                       ELSE m.session_id
                     /\ FreshlyRegistered(m, out, r.session_id)
                ELSE r.type = "error"

\* The id "s" was initialised twice without a Stop: its first session
\* object, used and still active, is no longer the one registered.
C13_Witness ==
    /\ Len(heap) = 2
    /\ heap[1].session_id = "s" /\ heap[1].is_active
    /\ sessions["s"] = 2
    /\ heap[2].sequence = 1 /\ heap[2].audio_queue = << << >> >>

\* C16 as stated: whenever a pipeline task has ended, for whatever reason,
\* the session it served is closed: in no reachable state is a task finished
\* and the active flag of its session still true.  Under Spec.
C16_Original ==
    \A t \in DOMAIN tasks :
        tasks[t].pc = "done" => ~heap[tasks[t].obj].is_active

\* C17: a Start message on a registered session succeeds in every state,
\* with status "started" and the session's current sequence number, and
\* handling it changes nothing but that session's sequence counter, which
\* advances by one: not the registry, the active flag, a queue or the
\* context, nor any pipeline task or the task registry.  Under Spec.
C17_StartOnlyCounts ==
    /\ [](\A m \in Messages :
             (m.type = "start" /\ GetSession(sessions, m.session_id) # 0) =>
                 LET obj == GetSession(sessions, m.session_id)
                 IN  /\ Reply(m).type = "start"
                     /\ Reply(m).status = "started"
                     /\ Reply(m).sequence = heap[obj].sequence
                     /\ Dispatch(m, "-").sessions = sessions
                     /\ Dispatch(m, "-").heap =
                           [heap EXCEPT ![obj].sequence = @ + 1])
    /\ [][\A m \in Messages :
             (/\ m.type = "start"
              /\ GetSession(sessions, m.session_id) # 0
              /\ HandleMessage(m, "-"))
             => /\ sessions' = sessions
                /\ heap' = [heap EXCEPT
                              ![GetSession(sessions, m.session_id)].sequence = @ + 1]
                /\ UNCHANGED <<uuids, tasks, taskReg, joins, consumer>>]_vars

\* Two Start messages have been answered by a session whose task is
\* created and has not run: the counter is at 3, nothing was enqueued.
C17_Witness ==
    \E key \in Keys :
        /\ sessions[key] # 0 /\ taskReg[key] # 0
        /\ tasks[taskReg[key]].pc = "created"
        /\ tasks[taskReg[key]].obj = sessions[key]
        /\ heap[sessions[key]].sequence = 3
        /\ heap[sessions[key]].is_active
        /\ heap[sessions[key]].audio_queue = << << >> >>

\* C18: under every interleaving of handle_message calls on a session (a
\* call never suspends, so calls interleave as wholes), the non-Error
\* replies the session has created carry sequence numbers that increase by
\* exactly one from each reply to the next, in the order of creation: none
\* is shared and none is skipped.  Under SpecProtocol.
C18_SequenceGapFree ==
    \A o \in DOMAIN runs.created :
        \A k \in 1..(Len(runs.created[o]) - 1) :
            runs.created[o][k + 1] = runs.created[o][k] + 1

\* A session has created four replies, the last of them for its Stop.
C18_Witness ==
    \E o \in DOMAIN runs.created :
        /\ Len(runs.created[o]) = 4
        /\ ~heap[o].is_active
        /\ Len(runs.acked[o]) >= 1

\* The tasks whose provider call for a chunk of session object o is under
\* way (a cancelled task's call is abandoned at its next step).
InFlight(o) ==
    {t \in DOMAIN tasks :
        tasks[t].obj = o /\ tasks[t].pc = "call" /\ ~tasks[t].cancel}

\* For session object o: what is left in the inbound queue is the last of
\* the acknowledged chunks, in order; at most one chunk is with the
\* provider, and it is the chunk taken last; the results in the outbound
\* queue are those of the provider's responses, in order.
FifoAt(o) ==
    LET a == runs.acked[o]
        q == heap[o].audio_queue[Len(heap[o].audio_queue)]
        n == Len(a) - Len(q)
    IN  /\ n >= 0
        /\ q = SubSeq(a, n + 1, Len(a))
        /\ Cardinality(InFlight(o)) <= 1
        /\ \A t \in InFlight(o) : n >= 1 /\ tasks[t].chunk = a[n]
        /\ heap[o].result_queue[Len(heap[o].result_queue)]
              = [i \in DOMAIN hist.provided[o] |-> Transcribe(hist.provided[o][i])]

\* C19: within one session, while it is active, chunks leave the inbound
\* queue and are submitted to the provider in the order in which their
\* Audio messages were acknowledged, at most one chunk of the session is
\* with the provider at any time, a response is only ever received for that
\* one chunk, and the results are pushed in the order of the responses,
\* which is the order of their chunks.  Under SpecFifo.
C19_FifoOneAtATime ==
    /\ [](\A o \in DOMAIN heap :
             (heap[o].is_active /\ Reachable(sessions, tasks, consumer, o))
             => FifoAt(o))
    /\ [][\A o \in DOMAIN heap :
             hist'.provided[o] # hist.provided[o] =>
                 /\ InFlight(o) # {}
                 /\ Len(hist'.provided[o]) = Len(hist.provided[o]) + 1
                 /\ SubSeq(hist'.provided[o], 1, Len(hist.provided[o]))
                       = hist.provided[o]]_vars

\* Three chunks were acknowledged: the first gave a result, which is
\* queued, the second was no good, and the third is with the provider.
C19_Witness ==
    \E o \in DOMAIN heap :
        /\ heap[o].is_active
        /\ Len(runs.acked[o]) = 3
        /\ runs.acked[o][2] # "a"
        /\ InFlight(o) # {}
        /\ heap[o].audio_queue[Len(heap[o].audio_queue)] = << >>
        /\ Len(hist.provided[o]) = 1
        /\ Len(heap[o].result_queue[Len(heap[o].result_queue)]) = 1

\* C20: on every step at which the provider returns a transcription for a
\* chunk of an active session, the result is appended to the session's
\* result queue and, when its text is non-empty, the text is appended to
\* the session's context; with an empty text the context stays as it was.
\* Under Spec.
C20_Original ==
    [][\A o \in DOMAIN heap :
          (heap[o].is_active /\ Len(hist'.provided[o]) > Len(hist.provided[o])) =>
              LET r == Transcribe(hist'.provided[o][Len(hist'.provided[o])])
              IN  /\ heap'[o].result_queue[Len(heap'[o].result_queue)]
                        = Append(heap[o].result_queue[Len(heap[o].result_queue)], r)
                  /\ heap'[o].context_buffer
                        = IF r.text # EmptyText
                          THEN Append(heap[o].context_buffer, r.text)
                          ELSE heap[o].context_buffer]_vars

\* C14: a POST /transcribe request whose upload is not valid audio (empty,
\* or bytes that cannot be converted: the provider yields no transcription
\* for it) is eventually answered with status 500.  Under SpecTransport.
C14_Original ==
    \A r \in 1..MaxRequests :
        (rest[r].pc # "idle" /\ rest[r].content \in {"", "x"})
            ~> (rest[r].pc = "done" /\ rest[r].status = 500)

\* The provider has returned its n-th response for the websocket's session.
WsProvided(n) ==
    /\ ws.obj # 0
    /\ Len(hist.provided[ws.obj]) >= n

\* The client has received the result of that response as the n-th message.
WsReceived(n) ==
    /\ WsProvided(n)
    /\ Len(ws.sent) >= n
    /\ ws.sent[n] = Transcribe(hist.provided[ws.obj][n])

\* C15: once the provider has returned a response for a chunk the websocket
\* client sent, the client, as long as it stays connected, eventually
\* receives a message carrying the result of that response; what the
\* client has received is at any time the results of the first responses,
\* in order.  Under SpecTransport.
C15_ResultReachesClient ==
    /\ \A n \in 1..MaxResults :
          WsProvided(n) ~> (WsReceived(n) \/ ws.client = "gone")
    /\ [](\A n \in 1..Len(ws.sent) : WsReceived(n))

\* The client sent a chunk and has received the result the provider
\* returned for it.
C15_Witness ==
    /\ ws.client = "connected"
    /\ ws.pc = "results"
    /\ WsReceived(1)
    /\ ws.sent[1].text # EmptyText

\* The longest suffix of buf whose entries hold at most limit tokens in all.
LongestSuffixWithin(buf, limit) ==
    LET Fits(k) == SumTokens(SubSeq(buf, k, Len(buf))) <= limit
        first == CHOOSE k \in 1..(Len(buf) + 1) :
                     Fits(k) /\ \A j \in 1..(k - 1) : ~Fits(j)
    IN  SubSeq(buf, first, Len(buf))

\* Where entry i of buf begins in the entries joined with one separator
\* each, less one.
RECURSIVE OffsetOf(_, _)
OffsetOf(buf, i) ==
    IF i = 1 THEN 0 ELSE OffsetOf(buf, i - 1) + Len(buf[i - 1]) + 1

\* joined is the entries of buf in order with exactly one space between
\* neighbours, and nothing else.
JoinedBySingleSpaces(buf, joined) ==
    IF buf = << >> THEN joined = << >>
    ELSE /\ Len(joined) = OffsetOf(buf, Len(buf)) + Len(buf[Len(buf)])
         /\ \A i \in 1..Len(buf) :
               /\ SubSeq(joined, OffsetOf(buf, i) + 1, OffsetOf(buf, i) + Len(buf[i]))
                     = buf[i]
               /\ i > 1 => joined[OffsetOf(buf, i)] = " "

\* C21: with a positive max_context_length, update_context(text) for any
\* text returns normally and leaves the longest suffix of the previous
\* buffer followed by text whose token total is within the limit, and
\* get_context on it is its entries in order joined by single spaces.
\* Under SpecContext.
C21_LongestSuffixKept ==
    \A text \in Texts :
        LET buf == heap[1].context_buffer
            limit == heap[1].max_context_length
            uc == UpdateContext(buf, limit, text)
        IN  (~limit.none /\ limit.n > 0) =>
                /\ ~uc.raised
                /\ uc.buf = LongestSuffixWithin(Append(buf, text), limit.n)
                /\ JoinedBySingleSpaces(uc.buf, GetContext(uc.buf))

\* Calls have filled the buffer up to the limit of two tokens, with an
\* entry of no token between two of one: the next text of one token drops
\* exactly the oldest entry, one of two tokens drops all three.
C21_Witness ==
    /\ heap[1].max_context_length = Some(2)
    /\ Len(heap[1].context_buffer) = 3
    /\ TokenCount(heap[1].context_buffer[1]) = 1
    /\ TokenCount(heap[1].context_buffer[2]) = 0
    /\ TokenCount(heap[1].context_buffer[3]) = 1
    /\ Len(UpdateContext(heap[1].context_buffer, Some(2), << "w" >>).buf) = 3
    /\ Len(UpdateContext(heap[1].context_buffer, Some(2), HelloWorld).buf) = 1

\* C23: every entry of the task registry is a task that has not finished,
\* and start_session does not raise for a session whose id has no
\* unfinished task, be it that none was started or that the task has ended
\* on its own.  Under Spec.
C23_Original ==
    /\ \A key \in Keys :
          taskReg[key] # 0 => tasks[taskReg[key]].pc # "done"
    /\ \A o \in Registered :
          LET t == taskReg[heap[o].session_id]
          IN  (t = 0 \/ tasks[t].pc = "done") => ~StartSessionOut(o).raised

\* The unfinished tasks whose session has the id key.
UnfinishedFor(key) ==
    {t \in DOMAIN tasks :
        tasks[t].pc # "done" /\ heap[tasks[t].obj].session_id = key}

\* C22: at any time at most one unfinished pipeline task exists for a
\* session id, whatever the order of the start_session and stop_session
\* calls.  Under SpecLifecycle.
C22_Original == \A key \in Keys : Cardinality(UnfinishedFor(key)) <= 1

\* C25: at any time at most one session object that something still holds
\* is active per session id, and no unfinished task works on a session
\* whose id is registered to another session object.  Under SpecLifecycle.
C25_Original ==
    /\ \A key \in Keys :
          Cardinality({o \in DOMAIN heap :
                          /\ Reachable(sessions, tasks, consumer, o)
                          /\ heap[o].is_active
                          /\ heap[o].session_id = key}) <= 1
    /\ \A t \in DOMAIN tasks :
          tasks[t].pc # "done" =>
              sessions[heap[tasks[t].obj].session_id] \in {0, tasks[t].obj}

\* C24: the websocket handler, once it has dispatched a frame and is
\* forwarding the results for it, eventually is back at receive_bytes() for
\* the next frame, unless the client disconnects.  Under SpecTransport.
C24_Original ==
    (ws.pc = "results") ~> (ws.pc = "receive" \/ ws.client = "gone")

====
